---- MODULE Spec2Model ----
(***************************************************************************)
(* Aviation scheduling service (src/main.py, src/models.py): the tables    *)
(* Aircrafts, Flights, Pilots and flight_pilot_association, and one action *)
(* per HTTP handler of main.py.                                            *)
(*                                                                         *)
(* The store executes the statements the handlers issue.  main.py holds no *)
(* guard for the ForeignKey columns of models.py and catches no store      *)
(* error, and the association table of models.py declares neither a        *)
(* primary key nor a unique constraint, so a row is inserted or deleted    *)
(* whenever a handler asks for it.  Path ids are positive (Path(gt=0)).    *)
(* The last request and its response are kept in resp.                     *)
(*                                                                         *)
(* Spec runs every handler.  SpecFleet, SpecCrew and SpecLifecycle run the *)
(* handlers of one part of the service, with the same actions, so that the *)
(* properties of that part are also decided for larger tables.             *)
(***************************************************************************)
EXTENDS Integers, FiniteSets, Sequences, Bags, TLC

\* ---- bounds of the model ----
MaxAircraft == 2
MaxFlight == 2
MaxPilot == 1
MaxLinks == 2

AircraftIds == 1..MaxAircraft
FlightIds == 1..MaxFlight
PilotIds == 1..MaxPilot

\* ---- request bodies (main.py, pydantic models) ----
Types == {"Boeing 737", "Airbus A320"}
Destinations == {"LAX", "JFK"}
Origins == {"LHR"}
FirstNames == {"Jane", "John"}
LastNames == {"Doe"}
BirthDates == {"1980-01-01"}

AircraftRequest == [type : Types]

\* aircraft_id, origin and destination are kept apart; the nine remaining
\* columns (terminals, gates, route, dates, times) are written together from
\* the request and never read by a handler: they share the field origin.
FlightRequest == [aircraft_id : AircraftIds, origin : Origins, destination : Destinations]

PilotRequest == [first_name : FirstNames, last_name : LastNames, date_of_birth : BirthDates]

FlightPilotLinkRequest == [pilot_id : PilotIds, flight_id : FlightIds]

VARIABLES aircrafts, flights, pilots, assoc, resp

vars == <<aircrafts, flights, pilots, assoc, resp>>

\* ---- table helpers ----
Put(t, id, row) == [x \in (DOMAIN t) \cup {id} |-> IF x = id THEN row ELSE t[x]]
\* variant: the DELETE statement is never issued
Remove_not_issued(t, id) == t

Remove(t, id) == [x \in (DOMAIN t) \ {id} |-> t[x]]

NoTable == [x \in {} |-> 0]

NoBody == [none |-> TRUE]

\* the JSON object {}: the handler returns the instance after db.commit(),
\* which has expired every loaded attribute of it, and the encoder
\* serialises what is left of the instance
EmptyObject == [x \in {} |-> 0]

\* the primary key the store gives a new row: one above the highest id of
\* the table, 1 for an empty table
NextId(t) == IF DOMAIN t = {} THEN 1 ELSE (CHOOSE m \in DOMAIN t : \A x \in DOMAIN t : x <= m) + 1

\* rows as the handlers return them (the mapped columns of models.py)
AircraftRow(id) == [id |-> id, type |-> aircrafts[id].type]

FlightRow(id) == [id |-> id, aircraft_id |-> flights[id].aircraft_id, origin |-> flights[id].origin, destination |-> flights[id].destination]

PilotRow(id) == [id |-> id, first_name |-> pilots[id].first_name, last_name |-> pilots[id].last_name, date_of_birth |-> pilots[id].date_of_birth]

Response(op, id, req, status, body) == [op |-> op, id |-> id, req |-> req, status |-> status, body |-> body]

Init ==
    /\ aircrafts = NoTable
    /\ flights = NoTable
    /\ pilots = NoTable
    /\ assoc = [pr \in FlightIds \X PilotIds |-> 0]
    /\ resp = Response("start", 0, NoBody, 200, NoBody)

\* ---- Aircraft handlers ----
read_all_aircrafts ==
    /\ resp' = Response("read_all_aircrafts", 0, NoBody, 200, SetToBag({AircraftRow(a) : a \in DOMAIN aircrafts}))
    /\ UNCHANGED <<aircrafts, flights, pilots, assoc>>

read_aircraft_response(aircraft_id) ==
    IF aircraft_id \in DOMAIN aircrafts
    THEN Response("read_aircraft", aircraft_id, NoBody, 200, AircraftRow(aircraft_id))
    ELSE Response("read_aircraft", aircraft_id, NoBody, 404, NoBody)

read_aircraft(aircraft_id) ==
    /\ resp' = read_aircraft_response(aircraft_id)
    /\ UNCHANGED <<aircrafts, flights, pilots, assoc>>

read_aircraft_flights_response(aircraft_id) ==
    IF aircraft_id \in DOMAIN aircrafts
    THEN Response("read_aircraft_flights", aircraft_id, NoBody, 200, SetToBag({FlightRow(f) : f \in {g \in DOMAIN flights : flights[g].aircraft_id = aircraft_id}}))
    ELSE Response("read_aircraft_flights", aircraft_id, NoBody, 404, NoBody)

read_aircraft_flights(aircraft_id) ==
    /\ resp' = read_aircraft_flights_response(aircraft_id)
    /\ UNCHANGED <<aircrafts, flights, pilots, assoc>>
\* variant: the new row takes any id, also one an existing Aircraft has
create_aircraft_any_id(aircraft_request) ==
    \E id \in AircraftIds :
        /\ aircrafts' = Put(aircrafts, id, [type |-> aircraft_request.type])
        /\ resp' = Response("create_aircraft", 0, aircraft_request, 201, EmptyObject)
        /\ UNCHANGED <<flights, pilots, assoc>>

\* (no id above MaxAircraft is explored)
create_aircraft(aircraft_request) ==
    /\ NextId(aircrafts) \in AircraftIds
    /\ aircrafts' = Put(aircrafts, NextId(aircrafts), [type |-> aircraft_request.type])
    /\ resp' = Response("create_aircraft", 0, aircraft_request, 201, EmptyObject)
    /\ UNCHANGED <<flights, pilots, assoc>>

update_aircraft(aircraft_id, aircraft_request) ==
    IF aircraft_id \notin DOMAIN aircrafts
    THEN /\ resp' = Response("update_aircraft", aircraft_id, aircraft_request, 404, NoBody)
         /\ UNCHANGED <<aircrafts, flights, pilots, assoc>>
    ELSE /\ aircrafts' = [aircrafts EXCEPT ![aircraft_id].type = aircraft_request.type]
         /\ resp' = Response("update_aircraft", aircraft_id, aircraft_request, 204, NoBody)
         /\ UNCHANGED <<flights, pilots, assoc>>

delete_aircraft(aircraft_id) ==
    IF aircraft_id \notin DOMAIN aircrafts
    THEN /\ resp' = Response("delete_aircraft", aircraft_id, NoBody, 404, NoBody)
         /\ UNCHANGED <<aircrafts, flights, pilots, assoc>>
    ELSE /\ aircrafts' = Remove(aircrafts, aircraft_id)
         /\ resp' = Response("delete_aircraft", aircraft_id, NoBody, 204, NoBody)
         /\ UNCHANGED <<flights, pilots, assoc>>

\* ---- Flight handlers ----
read_all_flights ==
    /\ resp' = Response("read_all_flights", 0, NoBody, 200, SetToBag({FlightRow(f) : f \in DOMAIN flights}))
    /\ UNCHANGED <<aircrafts, flights, pilots, assoc>>

\* GROUP BY Flight.destination with count(Flight.destination)
DestinationCount(d) == Cardinality({f \in DOMAIN flights : flights[f].destination = d})

DestinationGroups == {d \in Destinations : DestinationCount(d) > 0}

\* JOIN Flight ON Aircraft.id = Flight.aircraft_id GROUP BY Aircraft.type
AircraftTypeCount(t) == Cardinality({f \in DOMAIN flights : flights[f].aircraft_id \in DOMAIN aircrafts /\ aircrafts[flights[f].aircraft_id].type = t})

AircraftTypeGroups == {t \in Types : AircraftTypeCount(t) > 0}

\* ORDER BY count DESC, first(): a group no other group outnumbers; the
\* order among groups of equal count is the store's
MostCommonDestinations == {d \in DestinationGroups : \A e \in DestinationGroups : DestinationCount(e) <= DestinationCount(d)}

MostCommonAircraftTypes == {t \in AircraftTypeGroups : \A u \in AircraftTypeGroups : AircraftTypeCount(u) <= AircraftTypeCount(t)}

\* first() yields None for an empty result and the attribute access on it
\* (main.py lines 206, 210) raises: the request ends in a 500
flight_statistics ==
    /\ IF DestinationGroups = {} \/ AircraftTypeGroups = {}
       THEN resp' = Response("flight_statistics", 0, NoBody, 500, NoBody)
       ELSE \E d \in MostCommonDestinations, t \in MostCommonAircraftTypes :
                resp' = Response("flight_statistics", 0, NoBody, 200,
                                 [total_flights |-> Cardinality(DOMAIN flights),
                                  most_common_destination |-> [destination |-> d, count |-> DestinationCount(d)],
                                  most_common_aircraft |-> [aircraft_type |-> t, count |-> AircraftTypeCount(t)]])
    /\ UNCHANGED <<aircrafts, flights, pilots, assoc>>

read_flight_response(flight_id) ==
    IF flight_id \in DOMAIN flights
    THEN Response("read_flight", flight_id, NoBody, 200, FlightRow(flight_id))
    ELSE Response("read_flight", flight_id, NoBody, 404, NoBody)

read_flight(flight_id) ==
    /\ resp' = read_flight_response(flight_id)
    /\ UNCHANGED <<aircrafts, flights, pilots, assoc>>

\* rows of Pilots JOIN flight_pilot_association for one flight, one per
\* association row (a bag of pilot ids)
PilotsJoined(flight_id) == [p \in {q \in DOMAIN pilots : assoc[<<flight_id, q>>] > 0} |-> assoc[<<flight_id, p>>]]

\* rows of Flights JOIN flight_pilot_association for one pilot
FlightsJoined(pilot_id) == [f \in {g \in DOMAIN flights : assoc[<<g, pilot_id>>] > 0} |-> assoc[<<f, pilot_id>>]]

\* the relationship loader keeps one object per entity identity
UniqueEntities(rows) == [x \in DOMAIN rows |-> 1]

read_flight_pilots_response(flight_id) ==
    IF flight_id \in DOMAIN flights
    THEN LET loaded == UniqueEntities(PilotsJoined(flight_id))
         IN Response("read_flight_pilots", flight_id, NoBody, 200, [r \in {PilotRow(p) : p \in DOMAIN loaded} |-> loaded[r.id]])
    ELSE Response("read_flight_pilots", flight_id, NoBody, 404, NoBody)

read_flight_pilots(flight_id) ==
    /\ resp' = read_flight_pilots_response(flight_id)
    /\ UNCHANGED <<aircrafts, flights, pilots, assoc>>

\* (no id above MaxFlight is explored)
create_flight(flight_request) ==
    /\ NextId(flights) \in FlightIds
    /\ flights' = Put(flights, NextId(flights), flight_request)
    /\ resp' = Response("create_flight", 0, flight_request, 201, EmptyObject)
    /\ UNCHANGED <<aircrafts, pilots, assoc>>
\* variant: the assignment of aircraft_id (main.py line 270) is missing
update_flight_keeps_aircraft(flight_id, flight_request) ==
    IF flight_id \notin DOMAIN flights
    THEN /\ resp' = Response("update_flight", flight_id, flight_request, 404, NoBody)
         /\ UNCHANGED <<aircrafts, flights, pilots, assoc>>
    ELSE /\ flights' = [flights EXCEPT ![flight_id] = [aircraft_id |-> flights[flight_id].aircraft_id, origin |-> flight_request.origin, destination |-> flight_request.destination]]
         /\ resp' = Response("update_flight", flight_id, flight_request, 204, NoBody)
         /\ UNCHANGED <<aircrafts, pilots, assoc>>

update_flight(flight_id, flight_request) ==
    IF flight_id \notin DOMAIN flights
    THEN /\ resp' = Response("update_flight", flight_id, flight_request, 404, NoBody)
         /\ UNCHANGED <<aircrafts, flights, pilots, assoc>>
    ELSE /\ flights' = [flights EXCEPT ![flight_id] = [aircraft_id |-> flight_request.aircraft_id, origin |-> flight_request.origin, destination |-> flight_request.destination]]
         /\ resp' = Response("update_flight", flight_id, flight_request, 204, NoBody)
         /\ UNCHANGED <<aircrafts, pilots, assoc>>

delete_flight(flight_id) ==
    IF flight_id \notin DOMAIN flights
    THEN /\ resp' = Response("delete_flight", flight_id, NoBody, 404, NoBody)
         /\ UNCHANGED <<aircrafts, flights, pilots, assoc>>
    ELSE /\ flights' = Remove(flights, flight_id)
         /\ resp' = Response("delete_flight", flight_id, NoBody, 204, NoBody)
         /\ UNCHANGED <<aircrafts, pilots, assoc>>

\* ---- Pilot handlers ----
read_all_pilots ==
    /\ resp' = Response("read_all_pilots", 0, NoBody, 200, SetToBag({PilotRow(p) : p \in DOMAIN pilots}))
    /\ UNCHANGED <<aircrafts, flights, pilots, assoc>>
\* the number of rows of flight_pilot_association
RECURSIVE RowCount(_)
RowCount(S) == IF S = {} THEN 0 ELSE LET x == CHOOSE y \in S : TRUE IN assoc[x] + RowCount(S \ {x})

AssociationRows == RowCount(FlightIds \X PilotIds)

\* variant: the pilot lookup (main.py lines 324-326) is missing
link_pilot_to_flight_unchecked_pilot(request) ==
    IF request.flight_id \notin DOMAIN flights
    THEN /\ resp' = Response("link_pilot_to_flight", 0, request, 404, [detail |-> "Flight not found."])
         /\ UNCHANGED <<aircrafts, flights, pilots, assoc>>
    ELSE /\ AssociationRows < MaxLinks
         /\ assoc' = [assoc EXCEPT ![<<request.flight_id, request.pilot_id>>] = @ + 1]
         /\ resp' = Response("link_pilot_to_flight", 0, request, 201, [message |-> "Pilot linked to flight successfully"])
         /\ UNCHANGED <<aircrafts, flights, pilots>>

\* pilot.flights.append(flight); commit: one association row is inserted
\* (no table of more than MaxLinks rows is explored)
link_pilot_to_flight(request) ==
    IF request.flight_id \notin DOMAIN flights
    THEN /\ resp' = Response("link_pilot_to_flight", 0, request, 404, [detail |-> "Flight not found."])
         /\ UNCHANGED <<aircrafts, flights, pilots, assoc>>
    ELSE IF request.pilot_id \notin DOMAIN pilots
    THEN /\ resp' = Response("link_pilot_to_flight", 0, request, 404, [detail |-> "Pilot not found."])
         /\ UNCHANGED <<aircrafts, flights, pilots, assoc>>
    ELSE /\ AssociationRows < MaxLinks
         /\ assoc' = [assoc EXCEPT ![<<request.flight_id, request.pilot_id>>] = @ + 1]
         /\ resp' = Response("link_pilot_to_flight", 0, request, 201, [message |-> "Pilot linked to flight successfully"])
         /\ UNCHANGED <<aircrafts, flights, pilots>>

read_pilot_response(pilot_id) ==
    IF pilot_id \in DOMAIN pilots
    THEN Response("read_pilot", pilot_id, NoBody, 200, PilotRow(pilot_id))
    ELSE Response("read_pilot", pilot_id, NoBody, 404, NoBody)

read_pilot(pilot_id) ==
    /\ resp' = read_pilot_response(pilot_id)
    /\ UNCHANGED <<aircrafts, flights, pilots, assoc>>

read_pilot_flights_response(pilot_id) ==
    IF pilot_id \in DOMAIN pilots
    THEN LET loaded == UniqueEntities(FlightsJoined(pilot_id))
         IN Response("read_pilot_flights", pilot_id, NoBody, 200, [r \in {FlightRow(f) : f \in DOMAIN loaded} |-> loaded[r.id]])
    ELSE Response("read_pilot_flights", pilot_id, NoBody, 404, NoBody)

read_pilot_flights(pilot_id) ==
    /\ resp' = read_pilot_flights_response(pilot_id)
    /\ UNCHANGED <<aircrafts, flights, pilots, assoc>>

\* the handler returns nothing: 201 with an empty body
\* (no id above MaxPilot is explored)
create_pilot(pilot_request) ==
    /\ NextId(pilots) \in PilotIds
    /\ pilots' = Put(pilots, NextId(pilots), pilot_request)
    /\ resp' = Response("create_pilot", 0, pilot_request, 201, NoBody)
    /\ UNCHANGED <<aircrafts, flights, assoc>>

\* pilot_request.flight_id (main.py line 402) is no field of PilotRequest:
\* the read raises before db.commit(), nothing is written, the request ends
\* in a 500
update_pilot(pilot_id, pilot_request) ==
    IF pilot_id \notin DOMAIN pilots
    THEN /\ resp' = Response("update_pilot", pilot_id, pilot_request, 404, NoBody)
         /\ UNCHANGED <<aircrafts, flights, pilots, assoc>>
    ELSE /\ resp' = Response("update_pilot", pilot_id, pilot_request, 500, NoBody)
         /\ UNCHANGED <<aircrafts, flights, pilots, assoc>>

delete_pilot(pilot_id) ==
    IF pilot_id \notin DOMAIN pilots
    THEN /\ resp' = Response("delete_pilot", pilot_id, NoBody, 404, NoBody)
         /\ UNCHANGED <<aircrafts, flights, pilots, assoc>>
    ELSE /\ pilots' = Remove(pilots, pilot_id)
         /\ resp' = Response("delete_pilot", pilot_id, NoBody, 204, NoBody)
         /\ UNCHANGED <<aircrafts, flights, assoc>>

\* ---- the service ----
Next ==
    \/ read_all_aircrafts
    \/ \E a \in AircraftIds : read_aircraft(a)
    \/ \E a \in AircraftIds : read_aircraft_flights(a)
    \/ \E r \in AircraftRequest : create_aircraft(r)
    \/ \E a \in AircraftIds, r \in AircraftRequest : update_aircraft(a, r)
    \/ \E a \in AircraftIds : delete_aircraft(a)
    \/ read_all_flights
    \/ flight_statistics
    \/ \E f \in FlightIds : read_flight(f)
    \/ \E f \in FlightIds : read_flight_pilots(f)
    \/ \E r \in FlightRequest : create_flight(r)
    \/ \E f \in FlightIds, r \in FlightRequest : update_flight(f, r)
    \/ \E f \in FlightIds : delete_flight(f)
    \/ read_all_pilots
    \/ \E r \in FlightPilotLinkRequest : link_pilot_to_flight(r)
    \/ \E p \in PilotIds : read_pilot(p)
    \/ \E p \in PilotIds : read_pilot_flights(p)
    \/ \E r \in PilotRequest : create_pilot(r)
    \/ \E p \in PilotIds, r \in PilotRequest : update_pilot(p, r)
    \/ \E p \in PilotIds : delete_pilot(p)

Spec == Init /\ [][Next]_vars

\* ---- the Aircraft and Flight handlers on their own ----
\* the destination plays no part in the Aircraft-Flight relation: one is drawn
FleetFlightRequest == {r \in FlightRequest : r.destination = "LAX"}

NextFleet ==
    \/ read_all_aircrafts
    \/ \E a \in AircraftIds : read_aircraft(a)
    \/ \E a \in AircraftIds : read_aircraft_flights(a)
    \/ \E r \in AircraftRequest : create_aircraft(r)
    \/ \E a \in AircraftIds, r \in AircraftRequest : update_aircraft(a, r)
    \/ \E a \in AircraftIds : delete_aircraft(a)
    \/ read_all_flights
    \/ \E f \in FlightIds : read_flight(f)
    \/ \E r \in FleetFlightRequest : create_flight(r)
    \/ \E f \in FlightIds, r \in FleetFlightRequest : update_flight(f, r)
    \/ \E f \in FlightIds : delete_flight(f)

SpecFleet == Init /\ [][NextFleet]_vars

\* ---- the Flight and Pilot handlers and their link on their own ----
\* the columns of a Flight play no part in the association: one request is drawn
CrewFlightRequest == {r \in FlightRequest : r.aircraft_id = 1 /\ r.destination = "LAX"}

NextCrew ==
    \/ \E f \in FlightIds : read_flight(f)
    \/ \E f \in FlightIds : read_flight_pilots(f)
    \/ \E r \in CrewFlightRequest : create_flight(r)
    \/ \E f \in FlightIds : delete_flight(f)
    \/ \E r \in FlightPilotLinkRequest : link_pilot_to_flight(r)
    \/ \E p \in PilotIds : read_pilot(p)
    \/ \E p \in PilotIds : read_pilot_flights(p)
    \/ \E r \in PilotRequest : create_pilot(r)
    \/ \E p \in PilotIds : delete_pilot(p)

SpecCrew == Init /\ [][NextCrew]_vars

\* ---- create, link and delete of the three entities on their own ----
LifecycleAircraftRequest == {r \in AircraftRequest : r.type = "Boeing 737"}

LifecyclePilotRequest == {r \in PilotRequest : r.first_name = "Jane"}

NextLifecycle ==
    \/ \E r \in LifecycleAircraftRequest : create_aircraft(r)
    \/ \E a \in AircraftIds : delete_aircraft(a)
    \/ \E r \in CrewFlightRequest : create_flight(r)
    \/ \E f \in FlightIds : delete_flight(f)
    \/ \E r \in FlightPilotLinkRequest : link_pilot_to_flight(r)
    \/ \E r \in LifecyclePilotRequest : create_pilot(r)
    \/ \E p \in PilotIds : delete_pilot(p)

SpecLifecycle == Init /\ [][NextLifecycle]_vars

\* ---- the claims ----
Failed(r) == r.status >= 400

Null == [null |-> TRUE]

\* C1: a Flight create whose aircraft_id is the id of no existing Aircraft
\* fails and leaves the Flight rows as they were.
C1_CreateFlightUnknownAircraftFails ==
    [][\A r \in FlightRequest :
          (create_flight(r) /\ r.aircraft_id \notin DOMAIN aircrafts) => (Failed(resp') /\ flights' = flights)]_vars

\* C2: a (flight_id, pilot_id) pair is in the association at most once, and
\* read_flight_pilots lists no pilot twice.
C2_PairAtMostOnce ==
    /\ \A pr \in FlightIds \X PilotIds : assoc[pr] <= 1
    /\ \A f \in FlightIds :
          LET r == read_flight_pilots_response(f) IN r.status = 200 => \A row \in DOMAIN r.body : r.body[row] <= 1

\* C3: with zero Flights, flight_statistics succeeds with a total of 0 and
\* both aggregates null.
C3_StatisticsOnNoFlights ==
    (resp.op = "flight_statistics" /\ DOMAIN flights = {}) =>
        /\ resp.status = 200
        /\ resp.body.total_flights = 0
        /\ resp.body.most_common_destination = Null
        /\ resp.body.most_common_aircraft = Null

\* C4: update of an existing id replaces every mutable field with the
\* request's values and keeps the id; update of a missing id is NotFound; an
\* update of an existing row has no other outcome.
C4_UpdateIsFullReplace ==
    /\ resp.op = "update_aircraft" =>
          IF resp.id \in DOMAIN aircrafts
          THEN resp.status = 204 /\ AircraftRow(resp.id) = [id |-> resp.id, type |-> resp.req.type]
          ELSE resp.status = 404
    /\ resp.op = "update_flight" =>
          IF resp.id \in DOMAIN flights
          THEN resp.status = 204 /\ flights[resp.id] = resp.req
          ELSE resp.status = 404
    /\ resp.op = "update_pilot" =>
          IF resp.id \in DOMAIN pilots
          THEN resp.status = 204 /\ pilots[resp.id] = resp.req
          ELSE resp.status = 404

\* C5: every pair of the association refers to a Flight and a Pilot that
\* both exist.
C5_NoDanglingPair ==
    \A pr \in FlightIds \X PilotIds : assoc[pr] > 0 => (pr[1] \in DOMAIN flights /\ pr[2] \in DOMAIN pilots)

\* C6: delete of an existing id removes the row, so that a get-by-id of that
\* id directly afterwards is NotFound; delete of a missing id is NotFound and
\* leaves every table unchanged.
C6_DeleteThenGetIsNotFound ==
    [][/\ \A a \in AircraftIds : delete_aircraft(a) =>
             IF a \in DOMAIN aircrafts
             THEN resp'.status = 204 /\ a \notin DOMAIN aircrafts' /\ (read_aircraft_response(a))'.status = 404
             ELSE resp'.status = 404 /\ UNCHANGED <<aircrafts, flights, pilots, assoc>>
       /\ \A f \in FlightIds : delete_flight(f) =>
             IF f \in DOMAIN flights
             THEN resp'.status = 204 /\ f \notin DOMAIN flights' /\ (read_flight_response(f))'.status = 404
             ELSE resp'.status = 404 /\ UNCHANGED <<aircrafts, flights, pilots, assoc>>
       /\ \A p \in PilotIds : delete_pilot(p) =>
             IF p \in DOMAIN pilots
             THEN resp'.status = 204 /\ p \notin DOMAIN pilots' /\ (read_pilot_response(p))'.status = 404
             ELSE resp'.status = 404 /\ UNCHANGED <<aircrafts, flights, pilots, assoc>>]_vars

C6_Witness ==
    /\ resp.op = "delete_flight"
    /\ resp.status = 204
    /\ \E p \in PilotIds : assoc[<<resp.id, p>>] > 0
    /\ read_flight_response(resp.id).status = 404

\* the Flight rows a list response holds for Flight id f
RowsOf(r, f) == {row \in DOMAIN r.body : row.id = f}

\* C7: read_aircraft_flights(a) returns exactly the Flights whose aircraft_id
\* is a, after every Flight create, update (also one that changes
\* aircraft_id) and delete, and NotFound for an id with no Aircraft.
C7_AircraftFlightsExact ==
    [][/\ \A a \in AircraftIds :
             LET r == (read_aircraft_flights_response(a))' IN
             IF a \in DOMAIN aircrafts'
             THEN /\ r.status = 200
                  /\ \A row \in DOMAIN r.body : r.body[row] = 1
                  /\ DOMAIN r.body = {[id |-> f, aircraft_id |-> a, origin |-> flights'[f].origin, destination |-> flights'[f].destination] :
                                         f \in {g \in DOMAIN flights' : flights'[g].aircraft_id = a}}
             ELSE r.status = 404
       /\ \A r \in FlightRequest : create_flight(r) =>
             \E f \in FlightIds \ DOMAIN flights :
                 /\ DOMAIN flights' = DOMAIN flights \cup {f}
                 /\ \A a \in DOMAIN aircrafts :
                       (RowsOf((read_aircraft_flights_response(a))', f) # {}) <=> (a = r.aircraft_id)
       /\ \A f \in DOMAIN flights, r \in FlightRequest : update_flight(f, r) =>
             \A a \in DOMAIN aircrafts :
                 (RowsOf((read_aircraft_flights_response(a))', f) # {}) <=> (a = r.aircraft_id)
       /\ \A f \in DOMAIN flights : delete_flight(f) =>
             \A a \in DOMAIN aircrafts : RowsOf((read_aircraft_flights_response(a))', f) = {}]_vars

C7_Witness ==
    /\ resp.op = "update_flight"
    /\ resp.status = 204
    /\ DOMAIN aircrafts = AircraftIds
    /\ Cardinality(DOMAIN flights) >= 2
    /\ \E a \in DOMAIN aircrafts :
          /\ a # resp.req.aircraft_id
          /\ RowsOf(read_aircraft_flights_response(a), resp.id) = {}
          /\ DOMAIN read_aircraft_flights_response(a).body # {}
    /\ RowsOf(read_aircraft_flights_response(resp.req.aircraft_id), resp.id) # {}

\* C8: link_pilot_to_flight is NotFound, with the association unchanged,
\* when the flight id or the pilot id has no row; when both exist it succeeds,
\* the pilot is in read_flight_pilots(flight) and the flight is in
\* read_pilot_flights(pilot).
C8_LinkNotFoundOrLinked ==
    [][\A r \in FlightPilotLinkRequest : link_pilot_to_flight(r) =>
          IF r.flight_id \notin DOMAIN flights \/ r.pilot_id \notin DOMAIN pilots
          THEN resp'.status = 404 /\ assoc' = assoc
          ELSE /\ resp'.status = 201
               /\ (read_flight_pilots_response(r.flight_id))'.status = 200
               /\ \E row \in DOMAIN (read_flight_pilots_response(r.flight_id))'.body : row.id = r.pilot_id
               /\ (read_pilot_flights_response(r.pilot_id))'.status = 200
               /\ \E row \in DOMAIN (read_pilot_flights_response(r.pilot_id))'.body : row.id = r.flight_id]_vars

C8_Witness ==
    /\ resp.op = "link_pilot_to_flight"
    /\ resp.status = 201
    /\ \E row \in DOMAIN read_flight_pilots_response(resp.req.flight_id).body : row.id = resp.req.pilot_id
    /\ \E row \in DOMAIN read_pilot_flights_response(resp.req.pilot_id).body : row.id = resp.req.flight_id

\* C9: with at least one Flight, flight_statistics returns the number of
\* Flight rows, a destination whose count is the maximum over all
\* destinations, and an aircraft type whose count is the maximum over all
\* types of the number of Flights joined to an Aircraft of that type.
C9_StatisticsOnFlights ==
    (resp.op = "flight_statistics" /\ DOMAIN flights # {}) =>
        /\ resp.status = 200
        /\ resp.body.total_flights = Cardinality(DOMAIN flights)
        /\ resp.body.most_common_destination.count = DestinationCount(resp.body.most_common_destination.destination)
        /\ \A d \in Destinations : DestinationCount(d) <= resp.body.most_common_destination.count
        /\ resp.body.most_common_aircraft.count = AircraftTypeCount(resp.body.most_common_aircraft.aircraft_type)
        /\ \A t \in Types : AircraftTypeCount(t) <= resp.body.most_common_aircraft.count

\* C10: an Aircraft create assigns an id no other existing Aircraft has, and
\* read_aircraft on that id directly afterwards returns the type of the
\* request.
C10_CreateAircraftThenRead ==
    [][\A r \in AircraftRequest : create_aircraft(r) =>
          /\ resp'.status = 201
          /\ \A a \in DOMAIN aircrafts : a \in DOMAIN aircrafts' /\ aircrafts'[a] = aircrafts[a]
          /\ \E id \in AircraftIds \ DOMAIN aircrafts :
                /\ DOMAIN aircrafts' = DOMAIN aircrafts \cup {id}
                /\ (read_aircraft_response(id))'.status = 200
                /\ (read_aircraft_response(id))'.body = [id |-> id, type |-> r.type]]_vars

C10_Witness ==
    /\ resp.op = "create_aircraft"
    /\ resp.status = 201
    /\ Cardinality(DOMAIN aircrafts) = 2
    /\ read_aircraft_response(NextId(aircrafts) - 1).body.type = resp.req.type
    /\ \E a \in DOMAIN aircrafts : aircrafts[a].type # resp.req.type
====
